---- MODULE Spec2Model ----
(***************************************************************************)
(* Model of miner/cached_calls.py (Phobos): CachedCallsMiner, which scans  *)
(* the CachedMethodCalls directory once, derives a human-readable name for *)
(* every cache file it can load, resolves name collisions with the file    *)
(* name, and serves names (contname_iter) and data (get_data) from the     *)
(* cached name -> path map.                                                *)
(*                                                                         *)
(* Text is modelled as sequences of one-character strings, so that         *)
(* formatting, joining, basename/splitext and sorting are computed.        *)
(***************************************************************************)
EXTENDS Integers, Sequences, FiniteSets

(***************************************************************************)
(* Bounds of the model.                                                    *)
(***************************************************************************)
\* number of filesystem changes (file written/removed, directory made
\* listable/unlistable) that may happen during one behaviour
MaxFsChanges == 1

(***************************************************************************)
(* Text helpers.                                                           *)
(***************************************************************************)
\* code point of the characters used by the model (ordering of sorted())
CharCode(c) ==
    CASE c = " " -> 32  [] c = "(" -> 40  [] c = ")" -> 41  [] c = "," -> 44
      [] c = "." -> 46  [] c = "/" -> 47  [] c = "1" -> 49  [] c = "_" -> 95
      [] c = "a" -> 97  [] c = "b" -> 98  [] c = "c" -> 99  [] c = "d" -> 100
      [] c = "e" -> 101 [] c = "h" -> 104 [] c = "n" -> 110 [] c = "o" -> 111
      [] c = "s" -> 115 [] c = "t" -> 116 [] c = "x" -> 120 [] c = "z" -> 122

\* a < b for unicode strings: first differing code point, a proper prefix first
RECURSIVE StrLess(_, _)
StrLess(a, b) ==
    IF b = <<>> THEN FALSE
    ELSE IF a = <<>> THEN TRUE
    ELSE IF Head(a) = Head(b) THEN StrLess(Tail(a), Tail(b))
    ELSE CharCode(Head(a)) < CharCode(Head(b))

\* sorted(iterable of strings): ascending sequence of the elements of S
RECURSIVE Sorted(_)
Sorted(S) ==
    IF S = {} THEN <<>>
    ELSE LET m == CHOOSE x \in S : \A y \in S \ {x} : StrLess(x, y)
         IN  <<m>> \o Sorted(S \ {m})

\* sep.join(parts)
RECURSIVE Join(_, _)
Join(sep, parts) ==
    IF parts = <<>> THEN <<>>
    ELSE IF Len(parts) = 1 THEN parts[1]
    ELSE parts[1] \o sep \o Join(sep, Tail(parts))

\* index of the last occurrence of character c in s, 0 when there is none
RECURSIVE LastIndexOf(_, _)
LastIndexOf(s, c) ==
    IF s = <<>> THEN 0
    ELSE IF s[Len(s)] = c THEN Len(s)
    ELSE LastIndexOf(SubSeq(s, 1, Len(s) - 1), c)

EndsWith(s, suffix) ==
    /\ Len(s) >= Len(suffix)
    /\ SubSeq(s, Len(s) - Len(suffix) + 1, Len(s)) = suffix

\* os.path.join(directory, name)
PathJoin(dir, name) == dir \o <<"/">> \o name

\* os.path.basename(path): what follows the last separator
Basename(path) == SubSeq(path, LastIndexOf(path, "/") + 1, Len(path))

\* os.path.splitext(name)[0]: the name up to its last dot; a name whose only
\* dot is the leading one has no extension
SplitextRoot(name) ==
    LET i == LastIndexOf(name, ".")
    IN  IF i <= 1 THEN name ELSE SubSeq(name, 1, i - 1)

\* the '*.cache' pattern of the scan
CacheExt == <<".", "c", "a", "c", "h", "e">>

\* fnmatch of a directory entry against '*.cache' as glob applies it: the
\* name ends with the extension and is not a hidden (dot-leading) entry
MatchesCachePattern_anyEntry(name) == TRUE
MatchesCachePattern(name) ==
    /\ EndsWith(name, CacheExt)
    /\ Head(name) # "."

(***************************************************************************)
(* Values held by cache files.  A record is the pair (call_info,           *)
(* call_data) that blue.marshal.Load returns; call_info is a tuple whose   *)
(* first element is a service name or a tuple (service name, args...).     *)
(***************************************************************************)
Str(s) == [t |-> "str", v |-> s]
Num(digits) == [t |-> "int", v |-> digits]
Tup(xs) == [t |-> "tup", v |-> xs]

\* contents a file of the directory may hold, by identifier
ContentIds == {"c1", "c2", "c3", "c4", "bad", "nd"}
Absent == "absent"

\* does blue.marshal.Load decode the content into (call_info, {'lret': ...})
Decodes(c) == c \in {"c1", "c2", "c3", "c4", "nd"}

\* call_info of a decodable content
CallInfo(c) ==
    CASE c = "c1" -> <<Str(<<"s">>), Str(<<"c">>)>>
      [] c = "c2" -> <<Tup(<<Str(<<"s">>)>>), Str(<<"c">>)>>
      [] c = "c3" -> <<Str(<<"s">>), Str(<<"c", "(", ")", "_", "x">>)>>
      [] c = "c4" -> <<Tup(<<Str(<<"s">>), Num(<<"1">>)>>), Str(<<"c">>),
                       Str(<<"z">>), Str(<<"a", "/">>)>>
      [] c = "nd" -> <<Str(<<"s">>)>>

\* call_data['lret'] of a decodable content
Lret(c) ==
    CASE c = "c1" -> 1 [] c = "c2" -> 2 [] c = "c3" -> 3 [] c = "c4" -> 4
      [] c = "nd" -> 5

\* the scanned directory and the entries it may hold
CachedCallsDir == <<"d">>
FileNames ==
    { <<"a">> \o CacheExt,
      <<"b">> \o CacheExt,
      <<"c">> \o CacheExt,
      <<"x", "(", ")">> \o CacheExt,
      <<"n", ".", "t", "x", "t">> }

\* contents each entry takes in the model; the entry that does not match the
\* pattern is always there
ContentsOf(n) ==
    CASE n = <<"a">> \o CacheExt -> {"c1", "c4", "nd", Absent}
      [] n = <<"b">> \o CacheExt -> {"c2", "c3", "bad", Absent}
      [] n = <<"c">> \o CacheExt -> {"bad", Absent}
      [] n = <<"x", "(", ")">> \o CacheExt -> {"c1", "c2", Absent}
      [] OTHER -> {"c1"}

(***************************************************************************)
(* External collaborators.                                                 *)
(***************************************************************************)
\* AbstractMiner._secure_name: text rendering of one name component with
\* the characters unsafe in a file name replaced
SecureChar(c) == IF c = "/" THEN "_" ELSE c
SecureName(x) == [i \in 1..Len(x.v) |-> SecureChar(x.v[i])]

\* EveNormalizer().run(call_data)
EveNormalizerRun(data) == data + 100

(***************************************************************************)
(* __read_cache_file: open + read + marshal.Load + ['lret'].               *)
(***************************************************************************)
ReadCacheFile(f, path) ==
    LET c == f[Basename(path)]
    IN  IF c = Absent
        THEN [exc |-> "IOError", info |-> <<>>, lret |-> 0]
        ELSE IF ~Decodes(c)
        THEN [exc |-> "MarshalError", info |-> <<>>, lret |-> 0]
        ELSE [exc |-> "none", info |-> CallInfo(c), lret |-> Lret(c)]

(***************************************************************************)
(* Key derivation, lines 83-97 of _name_source_map.                        *)
(***************************************************************************)
SecureAll(xs) == [i \in 1..Len(xs) |-> SecureName(xs[i])]

FormatCall(svc_name, svc_args_line, call_name, call_args_line) ==
    svc_name \o <<"(">> \o svc_args_line \o <<")", "_">>
             \o call_name \o <<"(">> \o call_args_line \o <<")">>

SafeCallName_lenient(call_info) ==
    [exc  |-> "none",
     name |-> FormatCall(<<"s">>, <<>>,
                         IF call_info = <<>> \/ Tail(call_info) = <<>>
                         THEN <<>> ELSE SecureName(call_info[2]),
                         <<>>)]

SafeCallName(call_info) ==
    IF call_info = <<>>
    THEN [exc |-> "IndexError", name |-> <<>>]
    ELSE LET svc_info == call_info[1]
             rest     == Tail(call_info)
             is_seq   == svc_info.t = "tup"
         IN  IF is_seq /\ svc_info.v = <<>>
             THEN [exc |-> "IndexError", name |-> <<>>]
             ELSE IF rest = <<>>
             THEN [exc |-> "IndexError", name |-> <<>>]
             ELSE LET svc_name  == IF is_seq THEN SecureName(svc_info.v[1])
                                             ELSE SecureName(svc_info)
                      svc_args  == IF is_seq THEN Tail(svc_info.v) ELSE <<>>
                      call_name == SecureName(rest[1])
                      call_args == Tail(rest)
                      sep       == <<",", " ">>
                  IN  [exc  |-> "none",
                       name |-> FormatCall(svc_name,
                                           Join(sep, SecureAll(svc_args)),
                                           call_name,
                                           Join(sep, SecureAll(call_args)))]

(***************************************************************************)
(* The maps of _name_source_map.                                           *)
(***************************************************************************)
EmptyMap == [x \in {} |-> <<>>]

\* d[k] = v
Put(d, k, v) == [x \in DOMAIN d \cup {k} |-> IF x = k THEN v ELSE d[x]]

\* d.setdefault(k, set()).add(path)
AddToGroup(d, k, path) ==
    Put(d, k, (IF k \in DOMAIN d THEN d[k] ELSE {}) \cup {path})

\* '{}_{}'.format(safe_call_name, filename), filename without extension
ModifiedCallName(safe_call_name, filepath) ==
    safe_call_name \o <<"_">> \o SplitextRoot(Basename(filepath))

\* the (name, path) assignments one iteration of the loop of line 102 makes
GroupEntries_alwaysSuffix(safe_call_name, filepaths) ==
    { <<ModifiedCallName(safe_call_name, p), p>> : p \in filepaths }
GroupEntries(safe_call_name, filepaths) ==
    IF Cardinality(filepaths) > 1
    THEN { <<ModifiedCallName(safe_call_name, p), p>> : p \in filepaths }
    ELSE { <<safe_call_name, p>> : p \in filepaths }

\* the map after the assignments E (pairwise distinct names) are made to d
PutAll(d, E) ==
    [x \in DOMAIN d \cup {e[1] : e \in E} |->
        IF \E e \in E : e[1] = x
        THEN (CHOOSE e \in E : e[1] = x)[2]
        ELSE d[x]]

\* glob.glob(os.path.join(path_cachedcalls, '*.cache')): the matching entries
\* of the directory; glob swallows the listing error (os.error) of a missing
\* or unreadable directory and yields nothing
Glob_ignoresListing(f, dirListable) ==
    { PathJoin(CachedCallsDir, n) :
        n \in {m \in FileNames : f[m] # Absent /\ MatchesCachePattern(m)} }
Glob(f, dirListable) ==
    IF ~dirListable THEN {}
    ELSE { PathJoin(CachedCallsDir, n) :
             n \in {m \in FileNames : f[m] # Absent /\ MatchesCachePattern(m)} }

\* the file I/O of that glob call: "listerr" marks the swallowed listing error
GlobIO(dirListable) == IF dirListable THEN {"glob"} ELSE {"glob", "listerr"}

(***************************************************************************)
(* State.                                                                  *)
(***************************************************************************)
Threads == {1, 2}

VARIABLES
    fs,               \* directory entry name -> content identifier or Absent
    listable,         \* whether the directory can be listed
    budget,           \* filesystem changes still allowed
    name_source_map,  \* self.__name_source_map: None or the map
    callers,          \* the threads that call into the miner
    pc,               \* per thread: "idle", "scan" (loop of line 69), "fill" (loop of line 102)
    op,               \* per thread: the current or last call, "names" or "get"
    arg,              \* per thread: modified_call_name of that call
    todo,             \* per thread: paths of the glob result not yet visited
    groups,           \* per thread: safecall_filepath_map of its current or last scan
    pending,          \* per thread: safe call names the loop of line 102 has not visited
    res,              \* per thread: what the last finished call returned or raised
    io,               \* per thread: kinds of file I/O done by the current or last call
    notices,          \* per thread: base names printed as unloadable by the current or last call
    ev,               \* the step just taken: who took it, what it did, on which path, what was raised
    names_seen,       \* history: contname_iter has been called on the object
    last_names        \* history: None or what the last finished contname_iter yielded

vars == <<fs, listable, budget, name_source_map, callers, pc, op, arg, todo,
          groups, pending, res, io, notices, ev, names_seen, last_names>>

None == <<>>
Some(m) == <<m>>
NoArg == <<>>
NoPath == <<>>

NoResult == [kind |-> "none", names |-> <<>>, data |-> 0, err |-> "none"]
Raised(e) == [kind |-> "error", names |-> <<>>, data |-> 0, err |-> e]
Event(t, a, p, e) == [t |-> t, act |-> a, path |-> p, exc |-> e]

\* names a caller asks get_data for
SafeName1 == SafeCallName(CallInfo("c1")).name
GetArgs ==
    { SafeName1,
      SafeName1 \o <<"_", "a">>,
      SafeName1 \o <<"_", "x", "(", ")">>,
      <<"n", "o">> }

(***************************************************************************)
(* Decisions of the code.                                                  *)
(***************************************************************************)
\* line 64: if self.__name_source_map is None
NeedsBuild_always(m) == TRUE
NeedsBuild_falsy(m) == m = None \/ m = Some(EmptyMap)

NeedsBuild(m) == m = None

\* lines 73-78: KeyboardInterrupt is re-raised, anything else skips the file
OnLoadException_bareExcept(exc) == "skip"
OnLoadException(exc) == IF exc = "KeyboardInterrupt" THEN "raise" ELSE "skip"

\* lines 44-45: the names in sorted order
ContnameIter_unsorted(m) ==
    LET s == Sorted(DOMAIN m)
    IN  [kind |-> "names", names |-> [i \in 1..Len(s) |-> s[Len(s) + 1 - i]],
         data |-> 0, err |-> "none"]
ContnameIter(m) ==
    [kind |-> "names", names |-> Sorted(DOMAIN m), data |-> 0, err |-> "none"]

\* lines 49-55: look the name up, read the file again, normalize its data
GetData_readBeforeLookup(f, m, name) ==
    LET path == IF name \in DOMAIN m THEN m[name] ELSE NoPath
        rd   == IF name \in DOMAIN m THEN ReadCacheFile(f, path)
                ELSE [exc |-> "IOError", info |-> <<>>, lret |-> 0]
    IN  [r |-> IF rd.exc # "none" THEN Raised(rd.exc)
               ELSE [kind |-> "data", names |-> <<>>,
                     data |-> EveNormalizerRun(rd.lret), err |-> "none"],
         path |-> path, loads |-> {"getload"}]
GetData_loadErrorAsNameError(f, m, name) ==
    IF name \notin DOMAIN m \/ ReadCacheFile(f, m[name]).exc # "none"
    THEN [r |-> Raised("ContainerNameError"), path |-> NoPath, loads |-> {}]
    ELSE [r |-> [kind |-> "data", names |-> <<>>,
                 data |-> EveNormalizerRun(ReadCacheFile(f, m[name]).lret),
                 err |-> "none"],
          path |-> m[name], loads |-> {"getload"}]
GetData_noRead(f, m, name) ==
    IF name \notin DOMAIN m
    THEN [r |-> Raised("ContainerNameError"), path |-> NoPath, loads |-> {}]
    ELSE [r |-> [kind |-> "data", names |-> <<>>,
                 data |-> EveNormalizerRun(0), err |-> "none"],
          path |-> m[name], loads |-> {}]
GetData(f, m, name) ==
    IF name \notin DOMAIN m
    THEN [r |-> Raised("ContainerNameError"), path |-> NoPath, loads |-> {}]
    ELSE LET rd == ReadCacheFile(f, m[name])
         IN  [r |-> IF rd.exc # "none" THEN Raised(rd.exc)
                    ELSE [kind |-> "data", names |-> <<>>,
                          data |-> EveNormalizerRun(rd.lret), err |-> "none"],
              path |-> m[name], loads |-> {"getload"}]

(***************************************************************************)
(* Initial states: any content of the directory, an unbuilt miner.         *)
(***************************************************************************)
FsStates ==
    { f \in [FileNames -> ContentIds \cup {Absent}] :
        \A n \in FileNames : f[n] \in ContentsOf(n) }

InitMiner ==
    /\ fs \in FsStates
    /\ listable \in BOOLEAN
    /\ budget = MaxFsChanges
    /\ name_source_map = None
    /\ pc = [t \in Threads |-> "idle"]
    /\ op = [t \in Threads |-> "none"]
    /\ arg = [t \in Threads |-> NoArg]
    /\ todo = [t \in Threads |-> {}]
    /\ groups = [t \in Threads |-> EmptyMap]
    /\ pending = [t \in Threads |-> {}]
    /\ res = [t \in Threads |-> NoResult]
    /\ io = [t \in Threads |-> {}]
    /\ notices = [t \in Threads |-> {}]
    /\ ev = Event(0, "init", NoPath, "none")
    /\ names_seen = FALSE
    /\ last_names = None

Init == InitMiner /\ callers = {1}

(***************************************************************************)
(* Steps of a call.                                                        *)
(***************************************************************************)
\* the rest of contname_iter (o = "names") or get_data (o = "get") once the
\* property has returned the map m
Outcome(f, m, o, a) ==
    IF o = "names"
    THEN [r |-> ContnameIter(m), path |-> NoPath, loads |-> {}]
    ELSE GetData(f, m, a)

\* A caller starts contname_iter or get_data, which reads the property.  With
\* the map present the call runs to its end; otherwise the directory is
\* globbed and the scan loop is entered.
Call(t) ==
    /\ t \in callers
    /\ pc[t] = "idle"
    /\ \E o \in {"names", "get"} :
       \E a \in (IF o = "get" THEN GetArgs ELSE {NoArg}) :
          /\ op' = [op EXCEPT ![t] = o]
          /\ arg' = [arg EXCEPT ![t] = a]
          /\ notices' = [notices EXCEPT ![t] = {}]
          /\ names_seen' = (names_seen \/ o = "names")
          /\ IF NeedsBuild(name_source_map)
             THEN /\ todo' = [todo EXCEPT ![t] = Glob(fs, listable)]
                  /\ groups' = [groups EXCEPT ![t] = EmptyMap]
                  /\ pc' = [pc EXCEPT ![t] = "scan"]
                  /\ res' = [res EXCEPT ![t] = NoResult]
                  /\ io' = [io EXCEPT ![t] = GlobIO(listable)]
                  /\ ev' = Event(t, "glob", NoPath, "none")
                  /\ UNCHANGED last_names
             ELSE LET out == Outcome(fs, name_source_map[1], o, a)
                  IN  /\ res' = [res EXCEPT ![t] = out.r]
                      /\ io' = [io EXCEPT ![t] = out.loads]
                      /\ ev' = Event(t, o, out.path, out.r.err)
                      /\ last_names' = IF o = "names" THEN Some(out.r.names)
                                                      ELSE last_names
                      /\ UNCHANGED <<todo, groups, pc>>
    /\ UNCHANGED <<fs, listable, budget, name_source_map, callers, pending>>

\* the call of t ends by raising e out of the scan: its locals are dropped
Abort(t, e) ==
    /\ pc' = [pc EXCEPT ![t] = "idle"]
    /\ todo' = [todo EXCEPT ![t] = {}]
    /\ groups' = [groups EXCEPT ![t] = EmptyMap]
    /\ res' = [res EXCEPT ![t] = Raised(e)]
    /\ UNCHANGED notices

\* One iteration of the loop of line 69 on some path of the glob result (its
\* order is not specified).  The load may be cut by an interrupt.
ScanStep(t) ==
    /\ pc[t] = "scan"
    /\ \E p \in todo[t] :
       \E interrupt \in BOOLEAN :
          LET rd  == ReadCacheFile(fs, p)
              exc == IF interrupt THEN "KeyboardInterrupt" ELSE rd.exc
              key == SafeCallName(rd.info)
          IN  /\ io' = [io EXCEPT ![t] = @ \cup {"scanload"}]
              /\ IF exc # "none"
                 THEN /\ ev' = Event(t, "scanload", p, exc)
                      /\ IF OnLoadException(exc) = "raise"
                         THEN Abort(t, exc)
                         ELSE /\ todo' = [todo EXCEPT ![t] = @ \ {p}]
                              /\ notices' = [notices EXCEPT ![t] = @ \cup {Basename(p)}]
                              /\ UNCHANGED <<pc, groups, res>>
                 ELSE /\ ev' = Event(t, "scanload", p, key.exc)
                      /\ IF key.exc # "none"
                         THEN Abort(t, key.exc)
                         ELSE /\ todo' = [todo EXCEPT ![t] = @ \ {p}]
                              /\ groups' = [groups EXCEPT ![t] = AddToGroup(@, key.name, p)]
                              /\ UNCHANGED <<pc, res, notices>>
    /\ UNCHANGED <<fs, listable, budget, name_source_map, callers, op, arg, pending,
                   names_seen, last_names>>

\* the for loop of line 69 ends when the glob result is exhausted; only then
\* is line 101 reached
ScanDone_early(remaining) == TRUE

ScanDone(remaining) == remaining = {}

\* line 101: the scan loop is over, the attribute is set to a new empty map
BeginFill(t) ==
    /\ pc[t] = "scan"
    /\ ScanDone(todo[t])
    /\ name_source_map' = Some(EmptyMap)
    /\ pending' = [pending EXCEPT ![t] = DOMAIN groups[t]]
    /\ pc' = [pc EXCEPT ![t] = "fill"]
    /\ ev' = Event(t, "assign", NoPath, "none")
    /\ UNCHANGED <<fs, listable, budget, callers, op, arg, todo, groups, res, io, notices,
                   names_seen, last_names>>

\* one iteration of the loop of line 102 (dict order is not specified)
FillStep(t) ==
    /\ pc[t] = "fill"
    /\ \E k \in pending[t] :
          /\ name_source_map' =
                Some(PutAll(name_source_map[1], GroupEntries(k, groups[t][k])))
          /\ pending' = [pending EXCEPT ![t] = @ \ {k}]
    /\ ev' = Event(t, "fill", NoPath, "none")
    /\ UNCHANGED <<fs, listable, budget, callers, pc, op, arg, todo, groups, res, io, notices,
                   names_seen, last_names>>

\* line 116: the property returns the map and the call runs to its end
Finish(t) ==
    /\ pc[t] = "fill"
    /\ pending[t] = {}
    /\ LET out == Outcome(fs, name_source_map[1], op[t], arg[t])
       IN  /\ res' = [res EXCEPT ![t] = out.r]
           /\ io' = [io EXCEPT ![t] = @ \cup out.loads]
           /\ ev' = Event(t, op[t], out.path, out.r.err)
           /\ last_names' = IF op[t] = "names" THEN Some(out.r.names)
                                              ELSE last_names
    /\ pc' = [pc EXCEPT ![t] = "idle"]
    /\ UNCHANGED <<fs, listable, budget, name_source_map, callers, op, arg, todo, groups,
                   pending, notices, names_seen>>

(***************************************************************************)
(* The environment: the directory changes under the miner.                 *)
(***************************************************************************)
\* a file is written, rewritten or removed
FsWrite ==
    /\ budget > 0
    /\ \E n \in FileNames :
       \E c \in ContentsOf(n) \ {fs[n]} :
          fs' = [fs EXCEPT ![n] = c]
    /\ budget' = budget - 1
    /\ ev' = Event(0, "fs", NoPath, "none")
    /\ UNCHANGED <<listable, name_source_map, callers, pc, op, arg, todo, groups,
                   pending, res, io, notices, names_seen, last_names>>

\* the directory becomes unlistable (removed, unreadable) or listable again
FsDir ==
    /\ budget > 0
    /\ listable' = ~listable
    /\ budget' = budget - 1
    /\ ev' = Event(0, "fs", NoPath, "none")
    /\ UNCHANGED <<fs, name_source_map, callers, pc, op, arg, todo, groups,
                   pending, res, io, notices, names_seen, last_names>>

Next ==
    \/ \E t \in Threads : Call(t)
    \/ \E t \in Threads : ScanStep(t)
    \/ \E t \in Threads : BeginFill(t)
    \/ \E t \in Threads : FillStep(t)
    \/ \E t \in Threads : Finish(t)
    \/ FsWrite
    \/ FsDir

Spec == Init /\ [][Next]_vars

(***************************************************************************)
(* Two threads sharing one miner.  The class holds no lock: each thread    *)
(* runs the steps above on the shared attribute, interleaved in any order. *)
(* The directory starts with two cache files of distinct keys.             *)
(***************************************************************************)
InitMT ==
    /\ InitMiner
    /\ callers = Threads
    /\ listable
    /\ fs = [n \in FileNames |->
               CASE n = <<"a">> \o CacheExt -> "c1"
                 [] n = <<"b">> \o CacheExt -> "c3"
                 [] n = <<"n", ".", "t", "x", "t">> -> "c1"
                 [] OTHER -> Absent]

SpecMT == InitMT /\ [][Next]_vars

(***************************************************************************)
(* Vocabulary of the properties.                                           *)
(***************************************************************************)
Index == name_source_map[1]

\* the build that the only caller t ran is complete: the loop of line 102 has
\* ended, now or in an earlier call (groups[t] still holds what its scan found)
BuildComplete(t) ==
    /\ callers = {t}
    /\ name_source_map # None
    /\ \/ pc[t] = "fill" /\ pending[t] = {}
       \/ pc[t] = "idle"

\* the files thread t loaded successfully and derived a key for
Loaded(t) == UNION { groups[t][k] : k \in DOMAIN groups[t] }

\* the keys derived in the scan of t are pairwise distinct
DistinctKeys(t) == \A k \in DOMAIN groups[t] : Cardinality(groups[t][k]) = 1

\* directory entry and file name without extension of a path of the scan
EntryOf(p) == SubSeq(p, Len(CachedCallsDir) + 2, Len(p))
StemOf(p) == SubSeq(p, Len(CachedCallsDir) + 2, Len(p) - Len(CacheExt))

\* a strictly precedes b in lexicographic order of code points
LexBefore(a, b) ==
    \E i \in 1..Len(b) :
        /\ \A j \in 1..(i - 1) : j <= Len(a) /\ a[j] = b[j]
        /\ \/ i = Len(a) + 1
           \/ i <= Len(a) /\ CharCode(a[i]) < CharCode(b[i])

\* s lists exactly the elements of S, each once, in ascending order
AscendingListOf(s, S) ==
    /\ {s[i] : i \in 1..Len(s)} = S
    /\ \A i \in 1..(Len(s) - 1) : LexBefore(s[i], s[i + 1])

\* the step to the primed state is the start of a call by its thread
CallStarts == ev'.act \in {"glob", "names", "get"} /\ pc[ev'.t] = "idle"

(***************************************************************************)
(* C1: once a build has completed on a miner, no later step globs the      *)
(* directory or loads a file for indexing, whatever names() and fetch()    *)
(* calls follow, and every names() call yields the sequence the previous   *)
(* names() call yielded.                                                   *)
(***************************************************************************)
C1_ScanAtMostOnce ==
    /\ [][name_source_map # None => ev'.act \notin {"glob", "scanload"}]_vars
    /\ [][(ev'.act = "names" /\ last_names # None)
            => res'[ev'.t].names = last_names[1]]_vars

\* a second names() call answered from a non-empty cached map after the
\* directory changed
C1_Witness ==
    /\ ev.act = "names"
    /\ io[1] = {}
    /\ res[1].names # <<>>
    /\ last_names = Some(res[1].names)
    /\ budget < MaxFsChanges

(***************************************************************************)
(* C2: the built index is injective and complete over the successfully     *)
(* loaded files: every loaded file is the value of exactly one entry, every *)
(* entry maps to a loaded file, and there are as many entries as loaded    *)
(* files.                                                                  *)
(***************************************************************************)
C2_IndexInjectiveComplete ==
    \A t \in callers :
        BuildComplete(t) =>
            /\ \A p \in Loaded(t) :
                   Cardinality({n \in DOMAIN Index : Index[n] = p}) = 1
            /\ \A n \in DOMAIN Index : Index[n] \in Loaded(t)
            /\ Cardinality(DOMAIN Index) = Cardinality(Loaded(t))

(***************************************************************************)
(* C3: when two or more loaded files derive the same key K, the built      *)
(* index has exactly one entry per such file, named K_<file name without   *)
(* extension> and mapped to that file, and has no entry named K.           *)
(***************************************************************************)
C3_CollidingFilesSuffixed ==
    \A t \in callers :
        BuildComplete(t) =>
            \A k \in DOMAIN groups[t] :
                Cardinality(groups[t][k]) >= 2 =>
                    /\ k \notin DOMAIN Index
                    /\ \A p \in groups[t][k] :
                          /\ k \o <<"_">> \o StemOf(p) \in DOMAIN Index
                          /\ Index[k \o <<"_">> \o StemOf(p)] = p
                    /\ Cardinality({n \in DOMAIN Index : Index[n] \in groups[t][k]})
                          = Cardinality(groups[t][k])

(***************************************************************************)
(* C4: when the keys derived from the loaded files are pairwise distinct,  *)
(* the built index has one entry per file, named by the file's key, and a  *)
(* successful fetch(name) returns the normalization of the payload the     *)
(* file of that key holds.                                                 *)
(***************************************************************************)
C4_DistinctKeysIndexedByKey ==
    \A t \in callers :
        (BuildComplete(t) /\ DistinctKeys(t)) =>
            /\ DOMAIN Index = DOMAIN groups[t]
            /\ \A k \in DOMAIN groups[t] : groups[t][k] = {Index[k]}
            /\ (ev.act = "get" /\ ev.t = t /\ ev.exc = "none") =>
                  /\ arg[t] \in DOMAIN groups[t]
                  /\ groups[t][arg[t]] = {ev.path}
                  /\ res[t].kind = "data"
                  /\ res[t].data = EveNormalizerRun(Lret(fs[EntryOf(ev.path)]))

\* a fetch that succeeded on an index of two or more files with distinct keys
C4_Witness ==
    /\ BuildComplete(1)
    /\ DistinctKeys(1)
    /\ Cardinality(Loaded(1)) >= 2
    /\ ev.act = "get"
    /\ ev.exc = "none"

(***************************************************************************)
(* C5: a file that fails to load during the scan is skipped with a notice, *)
(* the scan goes on and nothing is raised; with one such file among N      *)
(* files that load, the built index has N entries.                         *)
(***************************************************************************)
C5_LoadFailureNonFatal ==
    /\ (ev.act = "scanload" /\ ev.exc \in {"IOError", "MarshalError"}) =>
          /\ pc[ev.t] = "scan"
          /\ EntryOf(ev.path) \in notices[ev.t]
          /\ res[ev.t].kind = "none"
    /\ \A t \in callers :
          (BuildComplete(t) /\ Cardinality(notices[t]) = 1) =>
              Cardinality(DOMAIN Index) = Cardinality(Loaded(t))

(***************************************************************************)
(* C6: a KeyboardInterrupt raised while a file of the scan is loaded ends  *)
(* the call at once with that exception: the scan loop is left with the    *)
(* remaining files unvisited, and the file is not reported as unloadable.  *)
(***************************************************************************)
C6_InterruptPropagates ==
    (ev.act = "scanload" /\ ev.exc = "KeyboardInterrupt") =>
        /\ pc[ev.t] = "idle"
        /\ res[ev.t] = Raised("KeyboardInterrupt")
        /\ todo[ev.t] = {}
        /\ EntryOf(ev.path) \notin notices[ev.t]
        /\ ~ENABLED ScanStep(ev.t)

\* an interrupt that arrived after another file of the same scan was skipped
C6_Witness ==
    /\ ev.act = "scanload"
    /\ ev.exc = "KeyboardInterrupt"
    /\ notices[1] # {}

(***************************************************************************)
(* C7 as claimed: fetch of a name absent from the index raises             *)
(* ContainerNameError and the call performs no file I/O, in every state    *)
(* of the object, the unbuilt one included.                                *)
(***************************************************************************)
C7_AbsentNameNoIO ==
    (ev.act = "get" /\ arg[ev.t] \notin DOMAIN Index) =>
        /\ res[ev.t] = Raised("ContainerNameError")
        /\ io[ev.t] = {}

(***************************************************************************)
(* C7 as amended: fetch of a name absent from the index raises             *)
(* ContainerNameError and never reads a cache file on behalf of the name;  *)
(* called on an object whose index is built it performs no file I/O at     *)
(* all (on an unbuilt object the call first runs the scan).                *)
(***************************************************************************)
C7_AbsentNameNoIOOnceBuilt ==
    /\ [](ev.act = "get" /\ arg[ev.t] \notin DOMAIN Index
            => /\ res[ev.t] = Raised("ContainerNameError")
               /\ "getload" \notin io[ev.t])
    /\ [][(CallStarts /\ name_source_map # None /\ ev'.act = "get"
              /\ arg'[ev'.t] \notin DOMAIN name_source_map[1])
            => io'[ev'.t] = {}]_vars

\* a failed fetch on a built, non-empty index
C7_Witness ==
    /\ ev.act = "get"
    /\ res[1] = Raised("ContainerNameError")
    /\ io[1] = {}
    /\ DOMAIN Index # {}

(***************************************************************************)
(* C8 as claimed: when the directory cannot be listed, the call that       *)
(* builds ends with a fatal error and no index is returned or cached.      *)
(***************************************************************************)
C8_UnlistableDirFatal ==
    \A t \in callers :
        ("listerr" \in io[t] /\ pc[t] = "idle") =>
            /\ res[t].kind = "error"
            /\ res[t].err # "ContainerNameError"
            /\ name_source_map = None

(***************************************************************************)
(* C8 as amended: when the directory cannot be listed, the glob yields no  *)
(* path and raises nothing; the build completes and caches an empty        *)
(* index, names() returns the empty sequence and fetch raises              *)
(* ContainerNameError.                                                     *)
(***************************************************************************)
C8_UnlistableDirEmptyIndex ==
    \A t \in callers :
        "listerr" \in io[t] =>
            /\ "scanload" \notin io[t]
            /\ todo[t] = {}
            /\ notices[t] = {}
            /\ res[t].err \in {"none", "ContainerNameError"}
            /\ pc[t] = "idle" =>
                  /\ name_source_map = Some(EmptyMap)
                  /\ op[t] = "names" => res[t] = ContnameIter(EmptyMap)
                  /\ op[t] = "get" => res[t] = Raised("ContainerNameError")

\* names() returned on an unlistable directory that holds a loadable cache file
C8_Witness ==
    /\ "listerr" \in io[1]
    /\ pc[1] = "idle"
    /\ op[1] = "names"
    /\ ~listable
    /\ \E n \in FileNames : MatchesCachePattern(n) /\ fs[n] = "c1"

(***************************************************************************)
(* C9 as claimed: a successful fetch reads the indexed file in that call   *)
(* and returns the normalization of what the file holds then; names()      *)
(* performs file I/O only on its first call.                               *)
(***************************************************************************)
C9_FreshLoadAndNamesIOFirstCallOnly ==
    /\ [](ev.act = "get" /\ ev.exc = "none"
            => /\ "getload" \in io[ev.t]
               /\ res[ev.t].data = EveNormalizerRun(Lret(fs[EntryOf(ev.path)])))
    /\ [][(CallStarts /\ op'[ev'.t] = "names" /\ names_seen)
            => io'[ev'.t] = {}]_vars

(***************************************************************************)
(* C9 as amended: a successful fetch reads the indexed file in that call   *)
(* and returns the normalization of what the file holds then; names()      *)
(* performs file I/O only when it is called on an object whose index is    *)
(* not built yet (its first call, or a call after one that was aborted     *)
(* before the index was cached).                                           *)
(***************************************************************************)
C9_FreshLoadAndNamesIOOnlyUnbuilt ==
    /\ [](ev.act = "get" /\ ev.exc = "none"
            => /\ "getload" \in io[ev.t]
               /\ res[ev.t].data = EveNormalizerRun(Lret(fs[EntryOf(ev.path)])))
    /\ [][(CallStarts /\ op'[ev'.t] = "names" /\ name_source_map # None)
            => io'[ev'.t] = {}]_vars

\* fetch of the name indexed for a.cache after a.cache was rewritten with
\* another record: the new payload comes back
C9_Witness ==
    /\ ev.act = "get"
    /\ ev.exc = "none"
    /\ arg[1] = SafeName1
    /\ ev.path = CachedCallsDir \o <<"/", "a">> \o CacheExt
    /\ fs[EntryOf(ev.path)] = "c4"
    /\ res[1].data = EveNormalizerRun(Lret("c4"))

(***************************************************************************)
(* C10: names() yields exactly the keys of the built index, each once, in  *)
(* ascending lexicographic order, and what the last names() call yielded   *)
(* stays the ascending list of the index keys ever after.                  *)
(***************************************************************************)
C10_NamesSortedAndExact ==
    /\ ev.act = "names" =>
          /\ res[ev.t].kind = "names"
          /\ AscendingListOf(res[ev.t].names, DOMAIN Index)
          /\ last_names = Some(res[ev.t].names)
    /\ last_names # None => AscendingListOf(last_names[1], DOMAIN Index)

\* names() answered with three names from the cached map
C10_Witness ==
    /\ ev.act = "names"
    /\ io[1] = {}
    /\ Len(res[1].names) >= 3

(***************************************************************************)
(* C11: on a listable directory with no entry matching *.cache (other      *)
(* entries may be there) the glob yields nothing, and a names() call whose *)
(* scan found no file to load raises nothing and returns the empty         *)
(* sequence.                                                               *)
(***************************************************************************)
NoCacheFiles ==
    \A n \in FileNames : fs[n] # Absent => ~EndsWith(n, CacheExt)

C11_NoCacheFilesEmptyNames ==
    \A t \in callers :
        /\ (ev.act = "glob" /\ ev.t = t /\ NoCacheFiles) =>
              /\ todo[t] = {}
              /\ res[t].kind # "error"
        /\ (op[t] = "names" /\ "glob" \in io[t] /\ "scanload" \notin io[t]) =>
              /\ res[t].kind # "error"
              /\ pc[t] = "idle" => res[t] = ContnameIter(EmptyMap)

\* names() returned the empty sequence on a listable directory that holds
\* only an entry of another extension
C11_Witness ==
    /\ pc[1] = "idle"
    /\ op[1] = "names"
    /\ io[1] = {"glob"}
    /\ res[1].kind = "names"
    /\ res[1].names = <<>>
    /\ NoCacheFiles
    /\ \E n \in FileNames : fs[n] # Absent
    /\ budget = MaxFsChanges

(***************************************************************************)
(* C12: the built index does not depend on the order in which the files    *)
(* were enumerated and grouped: every name of the index has exactly one    *)
(* file that the finalization assigns to it, so that the index is the same *)
(* mapping whatever the order of the loops.                                *)
(***************************************************************************)
\* every (name, path) assignment the loop of line 102 makes for the scan of t
AllEntries(t) ==
    UNION { GroupEntries(k, groups[t][k]) : k \in DOMAIN groups[t] }

C12_IndexOrderIndependent ==
    \A t \in callers :
        BuildComplete(t) =>
            /\ DOMAIN Index = {e[1] : e \in AllEntries(t)}
            /\ \A n \in DOMAIN Index :
                   {e[2] : e \in {x \in AllEntries(t) : x[1] = n}} = {Index[n]}

(***************************************************************************)
(* C13: once the build has completed, the index of the object never        *)
(* changes: no names() or fetch() call, successful or failing, and no      *)
(* change of the directory adds, removes or remaps an entry.               *)
(***************************************************************************)
C13_IndexImmutableOnceBuilt ==
    [][(name_source_map # None /\ \A t \in Threads : pc[t] # "fill")
          => name_source_map' = name_source_map]_vars

\* a built index that still maps a name to a file removed since, after a
\* later call
C13_Witness ==
    /\ BuildComplete(1)
    /\ pc[1] = "idle"
    /\ io[1] \cap {"glob"} = {}
    /\ \E n \in DOMAIN Index : fs[EntryOf(Index[n])] = Absent

(***************************************************************************)
(* C14, as stated: a first read operation of either kind on an unbuilt     *)
(* object scans the directory and leaves the object built.  Stated on the  *)
(* ended call: a call that globbed the directory has left the map set.     *)
(***************************************************************************)
C14_FirstReadBuilds ==
    \A t \in callers :
        (pc[t] = "idle" /\ "glob" \in io[t]) => name_source_map # None

\* the errors that leave the scan loop before line 101
ScanAborted(t) ==
    /\ res[t].kind = "error"
    /\ res[t].err \in {"KeyboardInterrupt", "IndexError"}

(***************************************************************************)
(* C14, amended: a names() or fetch() call on an unbuilt object globs the  *)
(* directory, and unless its scan is aborted by an interrupt or by a       *)
(* failing key derivation the call ends with the object built, whether it  *)
(* returns or fails on the name; a call of either kind on a built object   *)
(* does not glob and leaves the map alone.                                 *)
(***************************************************************************)
C14_FirstReadBuildsUnlessAborted ==
    [][/\ (CallStarts /\ name_source_map = None) =>
              /\ ev'.act = "glob"
              /\ "glob" \in io'[ev'.t]
       /\ (CallStarts /\ name_source_map # None) =>
              /\ ev'.act # "glob"
              /\ "glob" \notin io'[ev'.t]
              /\ name_source_map' = name_source_map
       /\ \A t \in callers :
              (pc'[t] = "idle" /\ "glob" \in io'[t] /\ ~ScanAborted(t)') =>
                  name_source_map' # None]_vars

\* a fetch of an absent name was the first operation and built the index
C14_Witness ==
    /\ pc[1] = "idle"
    /\ op[1] = "get"
    /\ "glob" \in io[1]
    /\ res[1] = Raised("ContainerNameError")
    /\ name_source_map # None
    /\ Index # EmptyMap
    /\ BuildComplete(1)

(***************************************************************************)
(* C16: an interrupt during the scan loop ends the call with the           *)
(* interrupt, drops what the scan had collected and leaves the object      *)
(* unbuilt; the map is never set while files of the glob result are still  *)
(* to be scanned; and the call that follows an interrupted one globs the   *)
(* directory again and starts its scan with nothing collected.             *)
(***************************************************************************)
C16_InterruptLeavesUnbuilt ==
    [][/\ \A t \in callers :
              /\ (ev'.t = t /\ ev'.exc = "KeyboardInterrupt") =>
                     /\ pc'[t] = "idle"
                     /\ res'[t] = Raised("KeyboardInterrupt")
                     /\ name_source_map' = None
                     /\ todo'[t] = {}
                     /\ groups'[t] = EmptyMap
              /\ pc'[t] = "scan" => name_source_map' = None
              /\ name_source_map' # None => todo'[t] = {}
       /\ (CallStarts /\ res[ev'.t] = Raised("KeyboardInterrupt")) =>
              /\ ev'.act = "glob"
              /\ pc'[ev'.t] = "scan"
              /\ todo'[ev'.t] = Glob(fs, listable)
              /\ groups'[ev'.t] = EmptyMap]_vars

\* the scan of a directory with two loadable files ended by an interrupt
C16_Witness ==
    /\ ev.t = 1
    /\ ev.exc = "KeyboardInterrupt"
    /\ res[1] = Raised("KeyboardInterrupt")
    /\ name_source_map = None
    /\ fs[<<"a", ".", "c", "a", "c", "h", "e">>] = "c1"
    /\ fs[<<"b", ".", "c", "a", "c", "h", "e">>] = "c2"
    /\ budget = MaxFsChanges
    /\ listable

(***************************************************************************)
(* C17: a file that loads but whose call description has no call name      *)
(* makes the key derivation raise; the error is not turned into a skip:    *)
(* it ends the call, the files not yet scanned stay unscanned and the      *)
(* object stays unbuilt.                                                   *)
(***************************************************************************)
\* the last step loaded a file whose call description is only a service
LoadedUndecomposable ==
    /\ ev.act = "scanload"
    /\ ev.exc # "KeyboardInterrupt"
    /\ fs[EntryOf(ev.path)] = "nd"

C17_KeyDerivationErrorPropagates ==
    \A t \in callers :
        (LoadedUndecomposable /\ ev.t = t) =>
            /\ ev.exc = "IndexError"
            /\ pc[t] = "idle"
            /\ res[t] = Raised("IndexError")
            /\ name_source_map = None
            /\ Basename(ev.path) \notin notices[t]
            /\ todo[t] = {}
            /\ ~ENABLED ScanStep(t)
            /\ ~ENABLED BeginFill(t)

\* the derivation failed on a.cache while b.cache was in the directory too
C17_Witness ==
    /\ ev.t = 1
    /\ ev.exc = "IndexError"
    /\ res[1] = Raised("IndexError")
    /\ name_source_map = None
    /\ fs[<<"a", ".", "c", "a", "c", "h", "e">>] = "nd"
    /\ fs[<<"b", ".", "c", "a", "c", "h", "e">>] = "c2"
    /\ budget = MaxFsChanges
    /\ listable

(***************************************************************************)
(* C18: a built object whose index is empty is built: a later names() or   *)
(* fetch() call does not glob or load anything and leaves the empty map in *)
(* place, whatever the directory holds by then; names() lists nothing and  *)
(* fetch() fails on the name.                                              *)
(***************************************************************************)
C18_EmptyIndexIsBuilt ==
    [][(/\ name_source_map = Some(EmptyMap)
        /\ \A t \in Threads : pc[t] = "idle"
        /\ CallStarts) =>
           /\ ev'.act # "glob"
           /\ io'[ev'.t] = {}
           /\ pc' = pc
           /\ name_source_map' = name_source_map
           /\ op'[ev'.t] = "names" => res'[ev'.t] = ContnameIter(EmptyMap)
           /\ op'[ev'.t] = "get" => res'[ev'.t] = Raised("ContainerNameError")]_vars

\* names() on an empty built index while a loadable cache file is listed
C18_Witness ==
    /\ name_source_map = Some(EmptyMap)
    /\ pc[1] = "idle"
    /\ op[1] = "names"
    /\ ev.act = "names"
    /\ io[1] = {}
    /\ res[1].kind = "names"
    /\ res[1].names = <<>>
    /\ listable
    /\ fs[<<"a", ".", "c", "a", "c", "h", "e">>] = "c1"
    /\ budget < MaxFsChanges

(***************************************************************************)
(* C19: a fetch of a name that is in the built index reads the indexed     *)
(* file as it is now: when the file has been removed or no longer decodes, *)
(* the call fails with the load error itself (not the unavailable-name     *)
(* error, and without a skip notice), when it loads the call returns its   *)
(* data; either way the fetch leaves the index as it was, the name         *)
(* included.                                                               *)
(***************************************************************************)
\* the outcome the present content c of the indexed file calls for
FetchOutcomeFor(c) ==
    CASE c = Absent -> Raised("IOError")
      [] c = "bad"  -> Raised("MarshalError")
      [] OTHER      -> [kind |-> "data", names |-> <<>>,
                        data |-> EveNormalizerRun(Lret(c)), err |-> "none"]

InBuild(t) == pc[t] \in {"scan", "fill"}

C15_FirstAccessCoordinated ==
    \A t \in callers : \A u \in callers \ {t} :
        /\ ~(InBuild(t) /\ InBuild(u))
        /\ (ev.t = t /\ ev.act \in {"names", "get"} /\ pc[t] = "idle") =>
               ~(pc[u] = "fill" /\ pending[u] # {})

====
